---- MODULE Spec2Model ----
(***************************************************************************)
(* The Hyperliquid trade capability (createTradeCapability.run): one       *)
(* invocation is a record of the locals of run(), and each action is the   *)
(* code that runs when one awaited outbound call completes, up to the next *)
(* await.  The secret store, the price feed, the universe listing and the  *)
(* exchange are the environment: every reply is chosen freely.             *)
(*                                                                         *)
(* JavaScript values: an optional value (possibly undefined) is a sequence *)
(* of length 0 or 1; a string whose characters matter is a sequence of     *)
(* one-character strings; a decimal string such as "0.1521" is the record  *)
(* [mant |-> 1521, dec |-> 4].                                             *)
(***************************************************************************)
EXTENDS Integers, Sequences, FiniteSets, TLC

VARIABLES inv, q

vars == <<inv, q>>

(***************************************************************************)
(* Bounds of the explored inputs.                                          *)
(***************************************************************************)
MaxMant == 600
MaxDec == 4
MaxSzDecimals == 8

(***************************************************************************)
(* Optional values and JavaScript truthiness.                              *)
(***************************************************************************)
None == <<>>
Some(v) == <<v>>
IsSome(o) == o /= <<>>
Val(o) == o[1]

\* `x || y`, `if (x)` on an optional string: undefined and "" are falsy
TruthyStr(o) == IsSome(o) /\ Val(o) /= ""
\* the same on an optional character sequence
TruthySeq(o) == IsSome(o) /\ Val(o) /= <<>>
\* `args.reduceOnly || false`
OrFalse(o) == IF IsSome(o) THEN Val(o) ELSE FALSE

RECURSIVE Pow10(_)
Pow10(n) == IF n = 0 THEN 1 ELSE 10 * Pow10(n - 1)

Dec(m, d) == [mant |-> m, dec |-> d]

(***************************************************************************)
(* parseInt(args.leverage): the leading decimal digits, NaN when there are *)
(* none.  NaN is modelled as -1.                                           *)
(***************************************************************************)
Digits == <<"0", "1", "2", "3", "4", "5", "6", "7", "8", "9">>
IsDigit(c) == \E k \in 1..10 : Digits[k] = c
DigitVal(c) == (CHOOSE k \in 1..10 : Digits[k] = c) - 1
NaN == 0 - 1

RECURSIVE ParseDigits(_, _)
ParseDigits(s, acc) ==
    IF s = <<>> \/ ~IsDigit(Head(s)) THEN acc
    ELSE ParseDigits(Tail(s), 10 * acc + DigitVal(Head(s)))

parseInt(s) == IF s = <<>> \/ ~IsDigit(Head(s)) THEN NaN ELSE ParseDigits(s, 0)

(***************************************************************************)
(* The request (zod schema) and the action context.                        *)
(***************************************************************************)
Coins == {"BTC", "ZZZ"}
Sides == {"buy", "sell"}
Sizes == {"0.01", "-1"}
Leverages == {None, Some(<<"5">>), Some(<<>>)}
ReduceOnlys == {None, Some(TRUE)}
PkNames == {"k1", "missing"}
VaultNames == {None, Some("v1"), Some("k1")}

schema ==
    [coin : Coins, side : Sides, size : Sizes, leverage : Leverages,
     reduceOnly : ReduceOnlys, pk_name : PkNames, vault_name : VaultNames]

\* action?.workspace?.id and env.OPENSERV_API_KEY: present or not
Contexts == [workspaceId : {None, Some("ws1")}, OPENSERV_API_KEY : {"", "key"}]

(***************************************************************************)
(* The result object handed to JSON.stringify: a field whose value is      *)
(* undefined is left out of the JSON text, here None.                      *)
(***************************************************************************)
EmptyResult ==
    [success |-> FALSE, error |-> None, availableSecrets |-> None,
     coin |-> None, side |-> None, size |-> None, leverage |-> None,
     avgFillPrice |-> None, totalFilled |-> None, oid |-> None,
     message |-> None, status |-> None, response |-> None]

Failure(err) == [EmptyResult EXCEPT !.error = Some(err)]

\* line 359-372: the top-level catch, err?.message || 'Unknown error'
TopLevelCatch_Rethrow(s, msg) ==
    [s EXCEPT !.pc = "done", !.raised = TRUE]

TopLevelCatch(s, msg) ==
    [s EXCEPT !.pc = "done",
              !.results = Append(@, Failure(IF msg /= "" THEN <<msg>>
                                                       ELSE <<"Unknown error">>))]

\* `return JSON.stringify(...)`
Return(s, result) == [s EXCEPT !.pc = "done", !.results = Append(@, result)]

(***************************************************************************)
(* How much the collaborators vary.  An invocation on its own is answered  *)
(* from the whole of each set of replies below; invocations that run       *)
(* interleaved are each answered from a few replies, different enough to   *)
(* tell whose reply a value came from.                                     *)
(***************************************************************************)
Alone == Cardinality(DOMAIN inv) <= 1

\* messages of the errors the collaborators throw
ThrownMessages == IF Alone THEN {"fetch failed", ""} ELSE {"fetch failed"}

(***************************************************************************)
(* The state of one invocation: the locals of run().                       *)
(***************************************************************************)
NewInvocation(a, c) ==
    [pc |-> "start", args |-> a, action |-> c, calls |-> <<>>,
     secrets |-> <<>>, privateKeySecret |-> None, vaultAddressSecret |-> None,
     PRIVATE_KEY |-> None, VAULT_ADDRESS |-> None, coinPrice |-> None,
     levAssetIndex |-> None,
     meta |-> None, assetIndex |-> None, szDecimals |-> None,
     limitPrice |-> None, orderResult |-> None,
     results |-> <<>>, raised |-> FALSE]

QIdle == [pc |-> "idle"]

Init ==
    /\ inv \in [{1} -> {NewInvocation(a, c) : a \in schema, c \in Contexts}]
    /\ q = QIdle

(***************************************************************************)
(* Lines 49-98: the configuration checks, then the listing is requested.   *)
(***************************************************************************)
Begin_NoKeyCheck(i) ==
    LET s == inv[i] IN
    /\ s.pc = "start"
    /\ inv' = [inv EXCEPT ![i] =
         IF ~TruthyStr(s.action.workspaceId)
         THEN Return(s, Failure(<<"Workspace ID is required to fetch secrets">>))
         ELSE [s EXCEPT !.pc = "listSecrets"]]
    /\ UNCHANGED q

Begin(i) ==
    LET s == inv[i] IN
    /\ s.pc = "start"
    /\ inv' = [inv EXCEPT ![i] =
         IF ~TruthyStr(s.action.workspaceId)
         THEN Return(s, Failure(<<"Workspace ID is required to fetch secrets">>))
         ELSE IF s.action.OPENSERV_API_KEY = ""
         THEN Return(s, Failure(<<"OPENSERV_API_KEY not configured">>))
         ELSE [s EXCEPT !.pc = "listSecrets"]]
    /\ UNCHANGED q

(***************************************************************************)
(* The secret store.  A listing is a sequence of {id, name}; a value is    *)
(* the text of the value response.                                         *)
(***************************************************************************)
MaxSecrets == 2

StoreSecrets ==
    {[id |-> "s1", name |-> "k1"], [id |-> "s3", name |-> "v1"]}

IsInjective(f) == \A a, b \in DOMAIN f : f[a] = f[b] => a = b

SecretLists ==
    IF Alone
    THEN UNION {{l \in [1..n -> StoreSecrets] : IsInjective(l)} : n \in 0..MaxSecrets}
    ELSE {<<[id |-> "s1", name |-> "k1"], [id |-> "s3", name |-> "v1"]>>}

Quote == "\""
SecretTexts ==
    IF Alone THEN {<<"a">>, <<Quote, "a", Quote>>} ELSE {<<"a">>, <<"b">>}
HttpStatuses == {"500"}

\* secrets.find((s) => s.name === name): the first match, or undefined
Find(secrets, name) ==
    LET hits == {k \in DOMAIN secrets : secrets[k].name = name} IN
    IF hits = {} THEN None
    ELSE Some(secrets[CHOOSE k \in hits : \A j \in hits : k <= j])

\* secrets.map((s) => s.name)
Names_DropFirst(secrets) ==
    [k \in 1..(Len(secrets) - 1) |-> secrets[k + 1].name]

Names(secrets) == [k \in DOMAIN secrets |-> secrets[k].name]

\* text.replace(/^"|"$/g, ''): a leading quote and a trailing quote are each
\* removed when present, independently of the other
StripQuotes_Balanced(text) ==
    IF Len(text) >= 2 /\ Head(text) = Quote /\ text[Len(text)] = Quote
    THEN SubSeq(text, 2, Len(text) - 1) ELSE text

StripQuotes(text) ==
    LET t1 == IF text /= <<>> /\ Head(text) = Quote THEN Tail(text) ELSE text
    IN  IF t1 /= <<>> /\ t1[Len(t1)] = Quote
        THEN SubSeq(t1, 1, Len(t1) - 1) ELSE t1

Call(s, c) == [s EXCEPT !.calls = Append(@, c)]

(***************************************************************************)
(* Lines 90-145: the listing arrives; both secrets are looked up by name;  *)
(* a missing private-key secret ends the invocation, a missing vault       *)
(* secret is only logged.                                                  *)
(***************************************************************************)
ListSecretsFound(s, list) ==
    LET pk == Find(list, s.args.pk_name)
        va == IF TruthyStr(s.args.vault_name)
              THEN Find(list, Val(s.args.vault_name)) ELSE None
        s1 == [s EXCEPT !.secrets = list, !.privateKeySecret = pk,
                        !.vaultAddressSecret = va]
    IN  IF ~IsSome(pk)
        THEN Return(s1, [Failure(<<"Secret \"", s.args.pk_name,
                                   "\" not found in OpenServ workspace">>)
                           EXCEPT !.availableSecrets = Some(Names(list))])
        ELSE [s1 EXCEPT !.pc = "pkValue"]

ListSecrets(i) ==
    LET s == inv[i]
        c(out) == Call(s, [op |-> "listSecrets", outcome |-> out])
    IN
    /\ s.pc = "listSecrets"
    /\ \/ \E m \in ThrownMessages :
            inv' = [inv EXCEPT ![i] = TopLevelCatch(c("throw"), m)]
       \/ \E st \in HttpStatuses :
            inv' = [inv EXCEPT ![i] =
                      Return(c("notok"), Failure(<<"Failed to list secrets: ", st>>))]
       \/ \E list \in SecretLists :
            inv' = [inv EXCEPT ![i] = ListSecretsFound(c("ok"), list)]
    /\ UNCHANGED q

(***************************************************************************)
(* Lines 140-169: the private-key value arrives.                           *)
(***************************************************************************)
PkValue(i) ==
    LET s == inv[i]
        c(out) == Call(s, [op |-> "secretValue", outcome |-> out,
                           id |-> Val(s.privateKeySecret).id])
        next(s1) == [s1 EXCEPT !.pc = IF IsSome(s.vaultAddressSecret)
                                      THEN "vaultValue" ELSE "allMids"]
    IN
    /\ s.pc = "pkValue"
    /\ \/ \E m \in ThrownMessages :
            inv' = [inv EXCEPT ![i] = TopLevelCatch(c("throw"), m)]
       \/ \E st \in HttpStatuses :
            inv' = [inv EXCEPT ![i] =
                      Return(c("notok"),
                             Failure(<<"Failed to get \"", s.args.pk_name,
                                       "\" value: ", st>>))]
       \/ \E text \in SecretTexts :
            inv' = [inv EXCEPT ![i] =
                      next([c("ok") EXCEPT !.PRIVATE_KEY = Some(StripQuotes(text))])]
    /\ UNCHANGED q

(***************************************************************************)
(* Lines 158-200: the vault value arrives; a response that is not ok       *)
(* leaves VAULT_ADDRESS undefined and the invocation goes on.  The client  *)
(* is then built from PRIVATE_KEY and VAULT_ADDRESS and the price feed is  *)
(* requested.                                                              *)
(***************************************************************************)
VaultValue_Relist(i) ==
    LET s == inv[i]
        c(out) == Call(s, [op |-> "secretValue", outcome |-> out,
                           id |-> Val(s.vaultAddressSecret).id])
    IN
    /\ s.pc = "vaultValue"
    /\ \/ \E m \in ThrownMessages :
            inv' = [inv EXCEPT ![i] = TopLevelCatch(c("throw"), m)]
       \/ inv' = [inv EXCEPT ![i] = [c("notok") EXCEPT !.pc = "listSecrets"]]
       \/ \E text \in SecretTexts :
            inv' = [inv EXCEPT ![i] =
                      [c("ok") EXCEPT !.VAULT_ADDRESS = Some(StripQuotes(text)),
                                      !.pc = "allMids"]]
    /\ UNCHANGED q

VaultValue(i) ==
    LET s == inv[i]
        c(out) == Call(s, [op |-> "secretValue", outcome |-> out,
                           id |-> Val(s.vaultAddressSecret).id])
    IN
    /\ s.pc = "vaultValue"
    /\ \/ \E m \in ThrownMessages :
            inv' = [inv EXCEPT ![i] = TopLevelCatch(c("throw"), m)]
       \/ inv' = [inv EXCEPT ![i] = [c("notok") EXCEPT !.pc = "allMids"]]
       \/ \E text \in SecretTexts :
            inv' = [inv EXCEPT ![i] =
                      [c("ok") EXCEPT !.VAULT_ADDRESS = Some(StripQuotes(text)),
                                      !.pc = "allMids"]]
    /\ UNCHANGED q

(***************************************************************************)
(* The exchange: the price feed, the universe listing, the leverage update *)
(* and the order endpoint.                                                 *)
(***************************************************************************)
MaxUniverse == 2

Prices == {Dec(50000, 0), Dec(1521, 4)}
AllMids ==
    IF Alone
    THEN [Coins -> {None} \cup {Some(p) : p \in Prices}]
    ELSE {[coin \in Coins |->
             IF coin = "BTC" THEN Some(Dec(50000, 0)) ELSE None]}

Assets ==
    {[name |-> "BTC", szDecimals |-> 5], [name |-> "ETH", szDecimals |-> 4],
     [name |-> "BTC", szDecimals |-> 0]}

Universes ==
    IF Alone
    THEN UNION {{u \in [1..n -> Assets] : IsInjective(u)} : n \in 0..MaxUniverse}
    ELSE {<<[name |-> "BTC", szDecimals |-> 5]>>,
          <<[name |-> "ETH", szDecimals |-> 4],
            [name |-> "BTC", szDecimals |-> 0]>>}

\* meta.universe.findIndex(u => u.name === coin): the first match, 0-based,
\* or -1
findIndex_Last(universe, coin) ==
    LET hits == {k \in DOMAIN universe : universe[k].name = coin} IN
    IF hits = {} THEN -1
    ELSE (CHOOSE k \in hits : \A j \in hits : j <= k) - 1

findIndex(universe, coin) ==
    LET hits == {k \in DOMAIN universe : universe[k].name = coin} IN
    IF hits = {} THEN -1
    ELSE (CHOOSE k \in hits : \A j \in hits : k <= j) - 1

(***************************************************************************)
(* Lines 258-267: the limit price.  Decimal arithmetic is exact here; the  *)
(* doubles of the code agree with it except when rawPrice / tickSize lies  *)
(* exactly half way between two integers, where the double may fall on     *)
(* either side, so Math.round yields either neighbour.                     *)
(***************************************************************************)
AdjustmentDen == 1000
BuyAdjustment == 1002
SellAdjustment == 998

\* args.side === 'buy' ? 1.002 : 0.998, in thousandths
priceAdjustment_Wide(side) ==
    IF side = "buy" THEN 1020 ELSE SellAdjustment

priceAdjustment(side) == IF side = "buy" THEN BuyAdjustment ELSE SellAdjustment

\* szDecimals >= 5 ? 1 : szDecimals >= 4 ? 0.1 : szDecimals >= 3 ? 0.01 : 0.001
tickSize_Coarse(szDecimals) ==
    IF szDecimals >= 4 THEN Dec(1, 0)
    ELSE IF szDecimals >= 3 THEN Dec(1, 2) ELSE Dec(1, 3)

tickSize(szDecimals) ==
    IF szDecimals >= 5 THEN Dec(1, 0)
    ELSE IF szDecimals >= 4 THEN Dec(1, 1)
    ELSE IF szDecimals >= 3 THEN Dec(1, 2) ELSE Dec(1, 3)

\* the argument of toFixed
fractionDigits_OneMore(szDecimals) ==
    IF szDecimals >= 5 THEN 1
    ELSE IF szDecimals >= 4 THEN 2
    ELSE IF szDecimals >= 3 THEN 3 ELSE 4

fractionDigits(szDecimals) ==
    IF szDecimals >= 5 THEN 0
    ELSE IF szDecimals >= 4 THEN 1
    ELSE IF szDecimals >= 3 THEN 2 ELSE 3

\* Math.round(num / den) for num >= 0, den > 0: the nearest integer, half up
MathRound(num, den) ==
    LET whole == num \div den
        rest == num % den
    IN  IF 2 * rest = den THEN {whole, whole + 1}
        ELSE IF 2 * rest < den THEN {whole} ELSE {whole + 1}

\* (num / den).toFixed(digits)
toFixed(num, den, digits) ==
    LET whole == num \div den
        rest == (num % den) * Pow10(digits)
    IN  Dec(whole * Pow10(digits) + (2 * rest + den) \div (2 * den), digits)

\* Math.round((num / den) / tickSize) * tickSize, then toFixed: the multiples
\* of the tick nearest to num / den, as decimal strings
roundToTick(num, den, szDecimals) ==
    LET tick == tickSize(szDecimals)
        ratio == IF den % Pow10(tick.dec) = 0
                 THEN MathRound(num, (den \div Pow10(tick.dec)) * tick.mant)
                 ELSE MathRound(num * Pow10(tick.dec), den * tick.mant)
    IN  {toFixed(r * tick.mant, Pow10(tick.dec), fractionDigits(szDecimals)) :
           r \in ratio}

\* the values limitPrice can take: rawPrice = parseFloat(coinPrice) *
\* priceAdjustment, rounded to the tick
limitPrices(coinPrice, side, szDecimals) ==
    roundToTick(coinPrice.mant * priceAdjustment(side),
                Pow10(coinPrice.dec) * AdjustmentDen, szDecimals)

(***************************************************************************)
(* Lines 199-212: the price feed arrives.                                  *)
(***************************************************************************)
AllMidsReply_NoCheck(i) ==
    LET s == inv[i]
        c(out) == Call(s, [op |-> "allMids", outcome |-> out])
    IN
    /\ s.pc = "allMids"
    /\ \/ \E m \in ThrownMessages :
            inv' = [inv EXCEPT ![i] = TopLevelCatch(c("throw"), m)]
       \/ \E allMids \in AllMids :
            inv' = [inv EXCEPT ![i] =
                      [c("ok") EXCEPT !.coinPrice = allMids[s.args.coin],
                                      !.pc = IF TruthySeq(s.args.leverage)
                                             THEN "metaLeverage" ELSE "meta"]]
    /\ UNCHANGED q

AllMidsReply_AnyLeverage(i) ==
    LET s == inv[i]
        c(out) == Call(s, [op |-> "allMids", outcome |-> out])
    IN
    /\ s.pc = "allMids"
    /\ \/ \E m \in ThrownMessages :
            inv' = [inv EXCEPT ![i] = TopLevelCatch(c("throw"), m)]
       \/ \E allMids \in AllMids :
            LET coinPrice == allMids[s.args.coin] IN
            inv' = [inv EXCEPT ![i] =
              IF ~IsSome(coinPrice)
              THEN Return(c("ok"), Failure(<<"Coin \"", s.args.coin,
                              "\" not found. Check symbol (e.g., \"BTC\", \"ETH\")">>))
              ELSE [c("ok") EXCEPT !.coinPrice = coinPrice,
                                   !.pc = IF IsSome(s.args.leverage)
                                          THEN "metaLeverage" ELSE "meta"]]
    /\ UNCHANGED q

AllMidsReply(i) ==
    LET s == inv[i]
        c(out) == Call(s, [op |-> "allMids", outcome |-> out])
    IN
    /\ s.pc = "allMids"
    /\ \/ \E m \in ThrownMessages :
            inv' = [inv EXCEPT ![i] = TopLevelCatch(c("throw"), m)]
       \/ \E allMids \in AllMids :
            LET coinPrice == allMids[s.args.coin] IN
            inv' = [inv EXCEPT ![i] =
              IF ~IsSome(coinPrice)
              THEN Return(c("ok"), Failure(<<"Coin \"", s.args.coin,
                              "\" not found. Check symbol (e.g., \"BTC\", \"ETH\")">>))
              ELSE [c("ok") EXCEPT !.coinPrice = coinPrice,
                                   !.pc = IF TruthySeq(s.args.leverage)
                                          THEN "metaLeverage" ELSE "meta"]]
    /\ UNCHANGED q

(***************************************************************************)
(* Lines 214-238: the leverage step.  Its own universe fetch and the       *)
(* update are inside one try/catch that swallows what is thrown; the       *)
(* `return` for a coin missing from that universe listing is not an        *)
(* exception and ends the invocation.                                      *)
(***************************************************************************)
MetaLeverage(i) ==
    LET s == inv[i]
        c(out) == Call(s, [op |-> "meta", outcome |-> out])
    IN
    /\ s.pc = "metaLeverage"
    /\ \/ inv' = [inv EXCEPT ![i] = [c("throw") EXCEPT !.pc = "meta"]]
       \/ \E universe \in Universes :
            LET assetIndex == findIndex(universe, s.args.coin) IN
            inv' = [inv EXCEPT ![i] =
              IF assetIndex = -1
              THEN Return(c("ok"), Failure(<<"Asset ", s.args.coin,
                                             " not found in universe">>))
              ELSE [c("ok") EXCEPT !.levAssetIndex = Some(assetIndex),
                                   !.pc = "updateLeverage"]]
    /\ UNCHANGED q

UpdateLeverage_Propagate(i) ==
    LET s == inv[i]
        c(out) == Call(s, [op |-> "updateLeverage", outcome |-> out,
                           wallet |-> s.PRIVATE_KEY, vault |-> s.VAULT_ADDRESS,
                           asset |-> Val(s.levAssetIndex), isCross |-> TRUE,
                           leverage |-> parseInt(Val(s.args.leverage))])
    IN
    /\ s.pc = "updateLeverage"
    /\ \/ \E m \in ThrownMessages :
            inv' = [inv EXCEPT ![i] = TopLevelCatch(c("throw"), m)]
       \/ inv' = [inv EXCEPT ![i] = [c("ok") EXCEPT !.pc = "meta"]]
    /\ UNCHANGED q

UpdateLeverage_Retry(i) ==
    LET s == inv[i]
        c(out) == Call(s, [op |-> "updateLeverage", outcome |-> out,
                           wallet |-> s.PRIVATE_KEY, vault |-> s.VAULT_ADDRESS,
                           asset |-> Val(s.levAssetIndex), isCross |-> TRUE,
                           leverage |-> parseInt(Val(s.args.leverage))])
    IN
    /\ s.pc = "updateLeverage"
    /\ \/ inv' = [inv EXCEPT ![i] = c("throw")]
       \/ inv' = [inv EXCEPT ![i] = [c("ok") EXCEPT !.pc = "meta"]]
    /\ UNCHANGED q

UpdateLeverage(i) ==
    LET s == inv[i]
        c(out) == Call(s, [op |-> "updateLeverage", outcome |-> out,
                           wallet |-> s.PRIVATE_KEY, vault |-> s.VAULT_ADDRESS,
                           asset |-> Val(s.levAssetIndex), isCross |-> TRUE,
                           leverage |-> parseInt(Val(s.args.leverage))])
    IN
    /\ s.pc = "updateLeverage"
    /\ \/ inv' = [inv EXCEPT ![i] = [c("throw") EXCEPT !.pc = "meta"]]
       \/ inv' = [inv EXCEPT ![i] = [c("ok") EXCEPT !.pc = "meta"]]
    /\ UNCHANGED q

(***************************************************************************)
(* Lines 241-293: the universe listing arrives; the asset index, the limit *)
(* price and the order are computed and the order is sent.                 *)
(***************************************************************************)
Meta_Rollback(i) ==
    LET s == inv[i]
        c(out) == Call(s, [op |-> "meta", outcome |-> out])
        undo(s1) ==
          IF IsSome(s.levAssetIndex)
          THEN Call(s1, [op |-> "updateLeverage", outcome |-> "ok",
                         wallet |-> s.PRIVATE_KEY, vault |-> s.VAULT_ADDRESS,
                         asset |-> Val(s.levAssetIndex), isCross |-> TRUE,
                         leverage |-> 1])
          ELSE s1
    IN
    /\ s.pc = "meta"
    /\ \/ \E m \in ThrownMessages :
            inv' = [inv EXCEPT ![i] = TopLevelCatch(undo(c("throw")), m)]
       \/ \E universe \in Universes :
            LET assetIndex == findIndex(universe, s.args.coin) IN
            IF assetIndex = -1
            THEN inv' = [inv EXCEPT ![i] =
                   Return([undo(c("ok")) EXCEPT !.meta = Some(universe)],
                          Failure(<<"Asset ", s.args.coin, " not found">>))]
            ELSE LET szDecimals == universe[assetIndex + 1].szDecimals IN
                 \E limitPrice \in
                      limitPrices(Val(s.coinPrice), s.args.side, szDecimals) :
                   inv' = [inv EXCEPT ![i] =
                     [c("ok") EXCEPT !.meta = Some(universe),
                                     !.assetIndex = Some(assetIndex),
                                     !.szDecimals = Some(szDecimals),
                                     !.limitPrice = Some(limitPrice),
                                     !.pc = "order"]]
    /\ UNCHANGED q

Meta(i) ==
    LET s == inv[i]
        c(out) == Call(s, [op |-> "meta", outcome |-> out])
    IN
    /\ s.pc = "meta"
    /\ \/ \E m \in ThrownMessages :
            inv' = [inv EXCEPT ![i] = TopLevelCatch(c("throw"), m)]
       \/ \E universe \in Universes :
            LET assetIndex == findIndex(universe, s.args.coin) IN
            IF assetIndex = -1
            THEN inv' = [inv EXCEPT ![i] =
                   Return([c("ok") EXCEPT !.meta = Some(universe)],
                          Failure(<<"Asset ", s.args.coin, " not found">>))]
            ELSE LET szDecimals == universe[assetIndex + 1].szDecimals IN
                 \E limitPrice \in
                      limitPrices(Val(s.coinPrice), s.args.side, szDecimals) :
                   inv' = [inv EXCEPT ![i] =
                     [c("ok") EXCEPT !.meta = Some(universe),
                                     !.assetIndex = Some(assetIndex),
                                     !.szDecimals = Some(szDecimals),
                                     !.limitPrice = Some(limitPrice),
                                     !.pc = "order"]]
    /\ UNCHANGED q

(***************************************************************************)
(* What the order endpoint can answer.  A JavaScript value carries its     *)
(* type in t: an object, a string or null.                                 *)
(***************************************************************************)
Payload(avgPx, totalSz, oid) ==
    [t |-> "object", avgPx |-> avgPx, totalSz |-> totalSz, oid |-> oid]
NullPayload == [t |-> "null", avgPx |-> None, totalSz |-> None, oid |-> None]

ObjStatus(filled, error, resting) ==
    [t |-> "object", str |-> "", filled |-> filled, error |-> error,
     resting |-> resting]
StrStatus(str) ==
    [t |-> "string", str |-> str, filled |-> None, error |-> None,
     resting |-> None]
NullStatus ==
    [t |-> "null", str |-> "", filled |-> None, error |-> None, resting |-> None]

FilledAvg == Payload(Some(Dec(50010, 0)), Some("0.01"), Some("oid7"))
FilledNoAvg == Payload(None, Some("0.01"), Some("oid7"))
RestingOid == Payload(None, None, Some("oid9"))

Statuses ==
    {ObjStatus(Some(FilledAvg), None, None),
     ObjStatus(Some(FilledNoAvg), None, None),
     ObjStatus(Some(NullPayload), None, None),
     ObjStatus(None, Some("Insufficient margin"), None),
     ObjStatus(None, None, Some(RestingOid)),
     ObjStatus(Some(FilledAvg), Some("Insufficient margin"), None),
     ObjStatus(None, None, None),
     StrStatus("waitingForFill"),
     StrStatus(""),
     NullStatus}

StatusLists ==
    {<<>>} \cup {<<st>> : st \in Statuses}
    \cup {<<ObjStatus(None, Some("Insufficient margin"), None),
            ObjStatus(Some(FilledAvg), None, None)>>}

OrderResponse(type, data) == [response |-> Some([type |-> type, data |-> data])]

OrderResults ==
    IF Alone
    THEN {OrderResponse("order", Some([statuses |-> Some(l)])) : l \in StatusLists}
         \cup {OrderResponse("order", Some([statuses |-> None])),
               OrderResponse("order", None),
               OrderResponse("default", Some([statuses |-> Some(<<>>)])),
               [response |-> None]}
    ELSE {OrderResponse("order", Some([statuses |-> Some(<<st>>)])) :
            st \in {ObjStatus(Some(FilledAvg), None, None),
                    ObjStatus(None, Some("Insufficient margin"), None)}}

Truthy(v) == v.t = "object" \/ (v.t = "string" /\ v.str /= "")

Thrown(msg) == [thrown |-> TRUE, msg |-> msg, result |-> EmptyResult]
Returned(result) == [thrown |-> FALSE, msg |-> "", result |-> result]

(***************************************************************************)
(* Lines 298-357: the classification of the reply.  Reading a property of  *)
(* undefined or null, and `in` on a value that is not an object, throw a   *)
(* TypeError.                                                              *)
(***************************************************************************)
Unexpected_Success(orderResult) ==
    Returned([EmptyResult EXCEPT !.success = TRUE,
                                 !.response = Some(orderResult)])

Unexpected(orderResult) ==
    Returned([Failure(<<"Unexpected response from exchange">>)
                EXCEPT !.response = Some(orderResult)])

ClassifyStatus(s, status, orderResult) ==
    IF status.t /= "object"
    THEN Thrown("Cannot use 'in' operator")
    ELSE IF IsSome(status.filled)
    THEN LET filled == Val(status.filled) IN
         IF filled.t /= "object"
         THEN Thrown("Cannot read properties of null")
         ELSE Returned([EmptyResult EXCEPT
                 !.success = TRUE,
                 !.coin = Some(s.args.coin),
                 !.side = Some(s.args.side),
                 !.size = Some(s.args.size),
                 !.leverage = s.args.leverage,
                 !.avgFillPrice = filled.avgPx,
                 !.totalFilled = filled.totalSz,
                 !.oid = filled.oid,
                 !.message = Some(<<"Successfully ",
                                    IF s.args.side = "buy" THEN "longed"
                                                           ELSE "shorted",
                                    " ", s.args.size, " ", s.args.coin>>)])
    ELSE IF IsSome(status.error)
    THEN Returned([EmptyResult EXCEPT
                 !.success = FALSE,
                 !.error = Some(<<Val(status.error)>>),
                 !.coin = Some(s.args.coin),
                 !.side = Some(s.args.side)])
    ELSE IF IsSome(status.resting)
    THEN LET resting == Val(status.resting) IN
         IF resting.t /= "object"
         THEN Thrown("Cannot read properties of null")
         ELSE Returned([EmptyResult EXCEPT
                 !.success = TRUE,
                 !.status = Some("resting"),
                 !.oid = resting.oid,
                 !.message = Some(<<"Order placed and waiting to be filled">>),
                 !.coin = Some(s.args.coin),
                 !.side = Some(s.args.side)])
    ELSE Unexpected(orderResult)

Classify(s, orderResult) ==
    IF ~IsSome(orderResult.response)
    THEN Thrown("Cannot read properties of undefined")
    ELSE LET response == Val(orderResult.response) IN
         IF response.type /= "order" \/ ~IsSome(response.data)
         THEN Unexpected(orderResult)
         ELSE IF ~IsSome(Val(response.data).statuses)
         THEN Thrown("Cannot read properties of undefined")
         ELSE LET statuses == Val(Val(response.data).statuses) IN
              IF statuses = <<>> \/ ~Truthy(statuses[1])
              THEN Unexpected(orderResult)
              ELSE ClassifyStatus(s, statuses[1], orderResult)

(***************************************************************************)
(* Lines 279-357: the order call completes and its reply is classified.    *)
(***************************************************************************)
Order_SharedClient(i) ==
    LET s == inv[i]
        built == {j \in DOMAIN inv : IsSome(inv[j].PRIVATE_KEY)}
        last == inv[CHOOSE j \in built : \A k \in built : k <= j]
        c(out) ==
          Call(s, [op |-> "order", outcome |-> out,
                   wallet |-> last.PRIVATE_KEY, vault |-> last.VAULT_ADDRESS,
                   orders |-> <<[a |-> Val(s.assetIndex),
                                 b |-> (s.args.side = "buy"),
                                 p |-> Val(s.limitPrice),
                                 s |-> s.args.size,
                                 r |-> OrFalse(s.args.reduceOnly),
                                 tif |-> "Ioc"]>>,
                   grouping |-> "na"])
    IN
    /\ s.pc = "order"
    /\ \/ \E m \in ThrownMessages :
            inv' = [inv EXCEPT ![i] = TopLevelCatch(c("throw"), m)]
       \/ \E orderResult \in OrderResults :
            LET s1 == [c("ok") EXCEPT !.orderResult = Some(orderResult)]
                cl == Classify(s1, orderResult)
            IN  inv' = [inv EXCEPT ![i] =
                          IF cl.thrown THEN TopLevelCatch(s1, cl.msg)
                          ELSE Return(s1, cl.result)]
    /\ UNCHANGED q

Order(i) ==
    LET s == inv[i]
        c(out) ==
          Call(s, [op |-> "order", outcome |-> out,
                   wallet |-> s.PRIVATE_KEY, vault |-> s.VAULT_ADDRESS,
                   orders |-> <<[a |-> Val(s.assetIndex),
                                 b |-> (s.args.side = "buy"),
                                 p |-> Val(s.limitPrice),
                                 s |-> s.args.size,
                                 r |-> OrFalse(s.args.reduceOnly),
                                 tif |-> "Ioc"]>>,
                   grouping |-> "na"])
    IN
    /\ s.pc = "order"
    /\ \/ \E m \in ThrownMessages :
            inv' = [inv EXCEPT ![i] = TopLevelCatch(c("throw"), m)]
       \/ \E orderResult \in OrderResults :
            LET s1 == [c("ok") EXCEPT !.orderResult = Some(orderResult)]
                cl == Classify(s1, orderResult)
            IN  inv' = [inv EXCEPT ![i] =
                          IF cl.thrown THEN TopLevelCatch(s1, cl.msg)
                          ELSE Return(s1, cl.result)]
    /\ UNCHANGED q

\* the step of invocation i, whichever call it awaits
Step(i) ==
    \/ Begin(i)
    \/ ListSecrets(i)
    \/ PkValue(i)
    \/ VaultValue(i)
    \/ AllMidsReply(i)
    \/ MetaLeverage(i)
    \/ UpdateLeverage(i)
    \/ Meta(i)
    \/ Order(i)

Next ==
    \/ \E i \in DOMAIN inv : Begin(i)
    \/ \E i \in DOMAIN inv : ListSecrets(i)
    \/ \E i \in DOMAIN inv : PkValue(i)
    \/ \E i \in DOMAIN inv : VaultValue(i)
    \/ \E i \in DOMAIN inv : AllMidsReply(i)
    \/ \E i \in DOMAIN inv : MetaLeverage(i)
    \/ \E i \in DOMAIN inv : UpdateLeverage(i)
    \/ \E i \in DOMAIN inv : Meta(i)
    \/ \E i \in DOMAIN inv : Order(i)

Spec == Init /\ [][Next]_vars

(***************************************************************************)
(* Vocabulary of the properties.                                           *)
(***************************************************************************)
CallsOf(s, op) == {k \in DOMAIN s.calls : s.calls[k].op = op}
Made(s, op) == CallsOf(s, op) /= {}
Failed(c) == c.outcome \in {"throw", "notok"}
\* the order call was made: it is awaited, or it has completed
Submitted(s) == s.pc = "order" \/ Made(s, "order")
\* the listing was received
Listed(s) == s.calls /= <<>> /\ s.calls[1].outcome = "ok"
NoSecretNamed(s, name) == \A k \in DOMAIN s.secrets : s.secrets[k].name /= name
LeverageFailed(s) ==
    \E k \in CallsOf(s, "updateLeverage") : s.calls[k].outcome = "throw"
\* the universe fetch that follows the leverage update was made
MetaAfterLeverage(s) ==
    \E k \in CallsOf(s, "updateLeverage") :
        \E j \in CallsOf(s, "meta") : k < j
Lists(universe, coin) == \E k \in DOMAIN universe : universe[k].name = coin

(***************************************************************************)
(* C1: every invocation, whatever the collaborators answer, ends having    *)
(* returned exactly one result whose `success` is a boolean, with no error *)
(* raised past run(): until it has ended it has returned nothing and can   *)
(* take a step, and every step moves it forward in the pipeline, so it     *)
(* ends within as many steps as the pipeline has.                          *)
(***************************************************************************)
PipelineOrder ==
    <<"start", "listSecrets", "pkValue", "vaultValue", "allMids",
      "metaLeverage", "updateLeverage", "meta", "order", "done">>

Rank(pc) == CHOOSE k \in DOMAIN PipelineOrder : PipelineOrder[k] = pc

Terminated(s) ==
    /\ s.pc = "done"
    /\ ~s.raised
    /\ Len(s.results) = 1
    /\ s.results[1].success \in BOOLEAN

C1_OneStructuredResult ==
    /\ [](\A i \in DOMAIN inv :
            /\ ~inv[i].raised
            /\ inv[i].pc = "done" => Terminated(inv[i])
            /\ inv[i].pc /= "done" => (inv[i].results = <<>> /\ ENABLED Step(i)))
    /\ [][\A i \in DOMAIN inv :
            inv'[i] /= inv[i] => Rank(inv'[i].pc) > Rank(inv[i].pc)]_vars

C1_Witness ==
    \E i \in DOMAIN inv :
        /\ Terminated(inv[i])
        /\ \E k \in DOMAIN inv[i].calls : inv[i].calls[k].outcome = "throw"
        /\ inv[i].results[1].error = Some(<<"fetch failed">>)

(***************************************************************************)
(* C2: when `leverage` is supplied and the update-leverage call fails, the *)
(* invocation goes on to the universe fetch that follows, and if that      *)
(* fetch succeeds and lists the coin the order is submitted.               *)
(***************************************************************************)
C2_LeverageFailureDoesNotBlockOrder ==
    \A i \in DOMAIN inv :
        LET s == inv[i] IN
        LeverageFailed(s) =>
            /\ s.pc = "meta" \/ MetaAfterLeverage(s)
            /\ (IsSome(s.meta) /\ Lists(Val(s.meta), s.args.coin)) => Submitted(s)

C2_Witness ==
    \E i \in DOMAIN inv :
        /\ LeverageFailed(inv[i])
        /\ inv[i].pc = "done"
        /\ \E k \in CallsOf(inv[i], "order") : inv[i].calls[k].outcome = "ok"
        /\ inv[i].results[1].success

(***************************************************************************)
(* C3: no invocation returns from inside the leverage step: an invocation  *)
(* whose request supplies `leverage` and that found the coin's price ends  *)
(* only after the universe fetch that follows the leverage step, which     *)
(* is its second universe fetch.                                           *)
(***************************************************************************)
C3_LeverageStepNeverHalts ==
    \A i \in DOMAIN inv :
        LET s == inv[i] IN
        (s.pc = "done" /\ TruthySeq(s.args.leverage) /\ IsSome(s.coinPrice))
            => Cardinality(CallsOf(s, "meta")) = 2

(***************************************************************************)
(* C4: a failed outbound call other than the leverage update (thrown, or   *)
(* answered with a status that is not ok) is the last call of its          *)
(* invocation, which ends with success:false.                              *)
(***************************************************************************)
C4_FailedCallTerminates ==
    \A i \in DOMAIN inv :
        LET s == inv[i] IN
        \A k \in DOMAIN s.calls :
            (Failed(s.calls[k]) /\ s.calls[k].op /= "updateLeverage") =>
                /\ k = Len(s.calls)
                /\ s.pc = "done"
                /\ Len(s.results) = 1 /\ ~s.results[1].success

(***************************************************************************)
(* C5: a supplied vault_name that matches no listed secret ends the        *)
(* invocation with a failure, and an invocation given a vault_name only    *)
(* ever submits an order on behalf of a resolved vault address.            *)
(***************************************************************************)
C5_VaultResolvedOrFails ==
    \A i \in DOMAIN inv :
        LET s == inv[i] IN
        TruthyStr(s.args.vault_name) =>
            /\ (Listed(s) /\ NoSecretNamed(s, Val(s.args.vault_name))) =>
                   (s.pc = "done" /\ ~s.results[1].success)
            /\ \A k \in CallsOf(s, "order") : IsSome(s.calls[k].vault)

(***************************************************************************)
(* C6: when pk_name matches no listed secret, the invocation has ended     *)
(* with success:false, the error names the secret, availableSecrets is     *)
(* the name of every listed secret in listing order, and the listing is    *)
(* the only outbound call made.                                            *)
(***************************************************************************)
C6_MissingKeyListsAvailableSecrets ==
    \A i \in DOMAIN inv :
        LET s == inv[i] IN
        (Listed(s) /\ NoSecretNamed(s, s.args.pk_name)) =>
            /\ s.pc = "done"
            /\ Len(s.calls) = 1
            /\ Len(s.results) = 1
            /\ LET r == s.results[1] IN
               /\ ~r.success
               /\ r.error = Some(<<"Secret \"", s.args.pk_name,
                                   "\" not found in OpenServ workspace">>)
               /\ IsSome(r.availableSecrets)
               /\ Len(Val(r.availableSecrets)) = Len(s.secrets)
               /\ \A k \in DOMAIN s.secrets :
                      Val(r.availableSecrets)[k] = s.secrets[k].name

C6_Witness ==
    \E i \in DOMAIN inv :
        /\ inv[i].args.pk_name = "missing"
        /\ inv[i].pc = "done"
        /\ Len(inv[i].results) = 1
        /\ inv[i].results[1].availableSecrets = Some(<<"k1", "v1">>)

(***************************************************************************)
(* The shape of a reply as the outcome taxonomy reads it: the kind of the  *)
(* first status of an `order` response, "other" for everything else.       *)
(***************************************************************************)
HasFirstStatus(orderResult) ==
    /\ IsSome(orderResult.response)
    /\ Val(orderResult.response).type = "order"
    /\ IsSome(Val(orderResult.response).data)
    /\ IsSome(Val(Val(orderResult.response).data).statuses)
    /\ Val(Val(Val(orderResult.response).data).statuses) /= <<>>

FirstStatus(orderResult) ==
    Val(Val(Val(orderResult.response).data).statuses)[1]

IsObject(o) == IsSome(o) /\ Val(o).t = "object"

Shape(orderResult) ==
    IF ~HasFirstStatus(orderResult) THEN "other"
    ELSE LET st == FirstStatus(orderResult) IN
         IF st.t /= "object" THEN "other"
         ELSE IF IsObject(st.filled) THEN "filled"
         ELSE IF IsSome(st.filled) THEN "other"
         ELSE IF IsSome(st.error) THEN "error"
         ELSE IF IsObject(st.resting) THEN "resting"
         ELSE "other"

Replied(s) == s.pc = "done" /\ IsSome(s.orderResult)

(***************************************************************************)
(* C7: the result is decided by the shape of the reply alone: `filled`     *)
(* gives success with the reported average price, size and order id,       *)
(* `error` gives success:false with the exchange's message, `resting`      *)
(* gives success with status "resting" and the order id, and every other   *)
(* shape gives success:false with the raw reply attached.                  *)
(***************************************************************************)
C7_ClassificationIsTotal ==
    \A i \in DOMAIN inv :
        LET s == inv[i] IN
        Replied(s) =>
            LET o == Val(s.orderResult)
                r == s.results[1]
            IN  /\ Len(s.results) = 1
                /\ Shape(o) = "filled" =>
                       /\ r.success
                       /\ r.avgFillPrice = Val(FirstStatus(o).filled).avgPx
                       /\ r.totalFilled = Val(FirstStatus(o).filled).totalSz
                       /\ r.oid = Val(FirstStatus(o).filled).oid
                /\ Shape(o) = "error" =>
                       ~r.success /\ r.error = Some(<<Val(FirstStatus(o).error)>>)
                /\ Shape(o) = "resting" =>
                       /\ r.success
                       /\ r.status = Some("resting")
                       /\ r.oid = Val(FirstStatus(o).resting).oid
                /\ Shape(o) = "other" =>
                       ~r.success /\ r.response = Some(o)

(***************************************************************************)
(* C8: the result of a `filled` reply reports the exchange's average price *)
(* when the reply has one, and the computed limit price when it has none.  *)
(***************************************************************************)
C8_AvgPriceFallsBackToLimit ==
    \A i \in DOMAIN inv :
        LET s == inv[i] IN
        (Replied(s) /\ Shape(Val(s.orderResult)) = "filled") =>
            LET avgPx == Val(FirstStatus(Val(s.orderResult)).filled).avgPx IN
            s.results[1].avgFillPrice =
                (IF IsSome(avgPx) THEN avgPx ELSE s.limitPrice)

(***************************************************************************)
(* The limit-price computation on its own: every price of up to MaxMant    *)
(* units with up to MaxDec fractional digits, both sides, every            *)
(* szDecimals up to MaxSzDecimals.  The computation is applied to the      *)
(* price, and then once more to the limit price it gave, either whole      *)
(* (bias and rounding) or the rounding alone.                              *)
(***************************************************************************)
InitQuantize ==
    /\ inv = <<>>
    /\ q \in [pc : {"input"},
              coinPrice : {Dec(m, d) : m \in 1..MaxMant, d \in 0..MaxDec},
              side : Sides, szDecimals : 0..MaxSzDecimals,
              first : {None}, second : {None}]

QuantizeOnce ==
    /\ q.pc = "input"
    /\ \E limitPrice \in limitPrices(q.coinPrice, q.side, q.szDecimals) :
         q' = [q EXCEPT !.pc = "once", !.first = Some(limitPrice)]
    /\ UNCHANGED inv

\* the limit price is the new price, which has to be positive
QuantizeAgain ==
    /\ q.pc = "once"
    /\ Val(q.first).mant > 0
    /\ \E limitPrice \in limitPrices(Val(q.first), q.side, q.szDecimals) :
         q' = [q EXCEPT !.pc = "twice", !.second = Some(limitPrice)]
    /\ UNCHANGED inv

RoundAgain ==
    /\ q.pc = "once"
    /\ \E limitPrice \in
            roundToTick(Val(q.first).mant, Pow10(Val(q.first).dec), q.szDecimals) :
         q' = [q EXCEPT !.pc = "rounded", !.second = Some(limitPrice)]
    /\ UNCHANGED inv

NextQuantize == QuantizeOnce \/ QuantizeAgain \/ RoundAgain

SpecQuantize == InitQuantize /\ [][NextQuantize]_vars

(***************************************************************************)
(* Decimal strings compared by value.                                      *)
(***************************************************************************)
Leq(a, b) == a.mant * Pow10(b.dec) <= b.mant * Pow10(a.dec)

\* a limit price in ticks: toFixed leaves as many digits as the tick has
Ticks(limitPrice) == limitPrice.mant

\* the bias moves a price of this many ticks by exactly half a tick
HalfTickAt == AdjustmentDen \div (2 * (BuyAdjustment - AdjustmentDen))

(***************************************************************************)
(* C9 as stated: the limit price of a limit price is that limit price.     *)
(***************************************************************************)
C9_QuantizeIsIdempotent ==
    q.pc = "twice" => q.second = q.first

(***************************************************************************)
(* C9 amended: the limit price of a limit price is that limit price when   *)
(* it is fewer than 250 ticks, where the 0.2% bias is under half a tick,   *)
(* and is another price when it is more than 250 ticks; rounding a limit   *)
(* price to the tick again, without the bias, always gives it back.        *)
(***************************************************************************)
C9_IdempotentBelowHalfTickBias ==
    /\ (q.pc = "twice" /\ Ticks(Val(q.first)) < HalfTickAt) => q.second = q.first
    /\ (q.pc = "twice" /\ Ticks(Val(q.first)) > HalfTickAt) => q.second /= q.first
    /\ q.pc = "rounded" => q.second = q.first

C9_Witness ==
    /\ q.pc = "twice"
    /\ Ticks(Val(q.first)) = HalfTickAt - 1
    /\ q.side = "buy"
    /\ q.second = q.first

(***************************************************************************)
(* C10: the limit price of a buy is at least the market price it was       *)
(* computed from, and the limit price of a sell is at most that price.     *)
(***************************************************************************)
C10_BiasDirection ==
    q.pc = "once" =>
        /\ q.side = "buy" => Leq(q.coinPrice, Val(q.first))
        /\ q.side = "sell" => Leq(Val(q.first), q.coinPrice)

\* the tick of the specification's table, as a number of fractional digits
TableDigits(szDecimals) ==
    CASE szDecimals >= 5 -> 0
      [] szDecimals = 4 -> 1
      [] szDecimals = 3 -> 2
      [] OTHER -> 3

\* |a| for an integer
Abs(n) == IF n < 0 THEN 0 - n ELSE n

(***************************************************************************)
(* C11: the limit price is a whole number of ticks, the tick being 1, 0.1, *)
(* 0.01 or 0.001 for szDecimals of 5 or more, 4, 3, or less than 3, and no *)
(* other multiple of the tick is nearer to the market price moved by 0.2%  *)
(* (up for a buy, down for a sell): it is within half a tick of it.        *)
(***************************************************************************)
C11_NearestMultipleOfTick ==
    q.pc = "once" =>
        LET limitPrice == Val(q.first)
            digits == TableDigits(q.szDecimals)
            thousandths == IF q.side = "buy" THEN 1002 ELSE 998
            \* both prices in units of 1 / (1000 * 10^coinPrice.dec * 10^digits)
            biased == q.coinPrice.mant * thousandths * Pow10(digits)
            limit == limitPrice.mant * 1000 * Pow10(q.coinPrice.dec)
            tick == 1000 * Pow10(q.coinPrice.dec)
        IN  /\ limitPrice.dec = digits
            /\ limitPrice.mant \in Nat
            /\ 2 * Abs(limit - biased) <= tick

C11_Witness ==
    /\ q.pc = "once"
    /\ q.szDecimals = 4
    /\ q.coinPrice = Dec(521, 1)
    /\ q.side = "buy"
    /\ Val(q.first) = Dec(522, 1)

\* the scenario of C12: the request, the price feed, the universe entry and
\* the reply of the order endpoint
FilledScenario(s) ==
    /\ s.args.coin = "BTC" /\ s.args.side = "buy" /\ s.args.size = "0.01"
    /\ s.args.leverage = Some(<<"5">>) /\ s.args.pk_name = "k1"
    /\ ~NoSecretNamed(s, "k1")
    /\ s.coinPrice = Some(Dec(50000, 0))
    /\ s.szDecimals = Some(5)
    /\ Replied(s)
    /\ Shape(Val(s.orderResult)) = "filled"
    /\ Val(FirstStatus(Val(s.orderResult)).filled).avgPx = Some(Dec(50010, 0))

(***************************************************************************)
(* C12: a buy of 0.01 BTC with leverage 5 and key k1, at a market price of *)
(* 50000 with szDecimals 5, answered `filled` at an average price of       *)
(* 50010, was submitted as one order at the limit price 50100 and returns  *)
(* success with coin BTC, side buy, size 0.01, avgFillPrice 50010 and the  *)
(* filled size and order id of the reply.                                  *)
(***************************************************************************)
C12_FilledBuyEndToEnd ==
    \A i \in DOMAIN inv :
        LET s == inv[i] IN
        FilledScenario(s) =>
            LET filled == Val(FirstStatus(Val(s.orderResult)).filled)
                result == s.results[1]
            IN  /\ Cardinality(CallsOf(s, "order")) = 1
                /\ \A k \in CallsOf(s, "order") :
                     /\ Len(s.calls[k].orders) = 1
                     /\ s.calls[k].orders[1].p = Dec(50100, 0)
                     /\ s.calls[k].orders[1].s = "0.01"
                     /\ s.calls[k].orders[1].b = TRUE
                /\ Len(s.results) = 1
                /\ result.success = TRUE
                /\ result.coin = Some("BTC")
                /\ result.side = Some("buy")
                /\ result.size = Some("0.01")
                /\ result.avgFillPrice = Some(Dec(50010, 0))
                /\ result.totalFilled = filled.totalSz
                /\ result.oid = filled.oid
                /\ IsSome(result.totalFilled) /\ IsSome(result.oid)

C12_Witness ==
    \E i \in DOMAIN inv :
        /\ FilledScenario(inv[i])
        /\ Made(inv[i], "updateLeverage")
        /\ inv[i].results[1].oid = Some("oid7")

(***************************************************************************)
(* The parsing of a secret value on its own: every stored text of up to    *)
(* MaxText characters, each a quote or a letter.                           *)
(***************************************************************************)
MaxText == 4

TextChars == {Quote, "a", "b"}

StoredTexts == UNION {[1..n -> TextChars] : n \in 0..MaxText}

InitResolve ==
    /\ inv = <<>>
    /\ q \in [pc : {"stored"}, text : StoredTexts, value : {None}]

\* line 156 for PRIVATE_KEY, line 163 for VAULT_ADDRESS
ResolveValue ==
    /\ q.pc = "stored"
    /\ q' = [q EXCEPT !.pc = "resolved", !.value = Some(StripQuotes(q.text))]
    /\ UNCHANGED inv

NextResolve == ResolveValue

SpecResolve == InitResolve /\ [][NextResolve]_vars

\* the text begins and ends with a quote, two different characters of it
Enclosed(text) ==
    Len(text) >= 2 /\ text[1] = Quote /\ text[Len(text)] = Quote

Inner(text) == SubSeq(text, 2, Len(text) - 1)

(***************************************************************************)
(* C13 as stated: the resolved value is the stored text without its        *)
(* enclosing quotes when it begins and ends with a quote, the stored text  *)
(* itself otherwise, and never has surrounding quotes.                     *)
(***************************************************************************)
C13_OneEnclosingLayerRemoved ==
    q.pc = "resolved" =>
        /\ Enclosed(q.text) => Val(q.value) = Inner(q.text)
        /\ ~Enclosed(q.text) => Val(q.value) = q.text
        /\ ~Enclosed(Val(q.value))

(***************************************************************************)
(* C13 amended: the resolved value is the stored text without its leading  *)
(* quote, if it has one, and without its trailing quote, if it has one,    *)
(* each removed whether or not the other is there.  So a text enclosed in  *)
(* quotes loses exactly one layer, a text with no quote at either end is   *)
(* unchanged, and the resolved value has surrounding quotes exactly when   *)
(* the stored text had two layers of them.                                 *)
(***************************************************************************)
C13_EachEndStripped ==
    q.pc = "resolved" =>
        LET text == q.text
            value == Val(q.value)
            lead == IF text /= <<>> /\ text[1] = Quote THEN 1 ELSE 0
            trail == IF Len(text) > lead /\ text[Len(text)] = Quote THEN 1 ELSE 0
        IN  /\ value = SubSeq(text, 1 + lead, Len(text) - trail)
            /\ Enclosed(text) => value = Inner(text)
            /\ (lead = 0 /\ trail = 0) => value = text
            /\ Enclosed(value) <=> (Enclosed(text) /\ Enclosed(Inner(text)))

C13_Witness ==
    /\ q.pc = "resolved"
    /\ q.text = <<Quote, "a", "b">>
    /\ q.value = Some(<<"a", "b">>)

\* the price feed answered and had no price for the coin of the request
PriceMissing(s) ==
    /\ \E k \in CallsOf(s, "allMids") : s.calls[k].outcome = "ok"
    /\ ~IsSome(s.coinPrice)

\* the error text of a result contains the word
ErrorNames(result, word) ==
    /\ IsSome(result.error)
    /\ \E k \in DOMAIN Val(result.error) : Val(result.error)[k] = word

ConfigurationMissing(s) ==
    ~TruthyStr(s.action.workspaceId) \/ s.action.OPENSERV_API_KEY = ""

(***************************************************************************)
(* C15: an invocation with no workspace id, or with no platform API key    *)
(* configured, ends at its first step with success:false and an error,     *)
(* and never makes an outbound call, nor waits for one.                    *)
(***************************************************************************)
C15_MissingConfigurationMakesNoCall ==
    \A i \in DOMAIN inv :
        LET s == inv[i] IN
        ConfigurationMissing(s) =>
            /\ s.calls = <<>>
            /\ s.pc \in {"start", "done"}
            /\ s.pc = "done" =>
                 /\ Len(s.results) = 1
                 /\ s.results[1].success = FALSE
                 /\ IsSome(s.results[1].error)

C15_Witness ==
    \E i \in DOMAIN inv :
        /\ TruthyStr(inv[i].action.workspaceId)
        /\ inv[i].action.OPENSERV_API_KEY = ""
        /\ inv[i].pc = "done"
        /\ inv[i].results[1].error = Some(<<"OPENSERV_API_KEY not configured">>)

\* the characters of the size strings of the requests
SizeChars(size) ==
    CASE size = "0.01" -> <<"0", ".", "0", "1">>
      [] size = "-1" -> <<"-", "1">>

\* a decimal numeral (digits, at most one point) of a value above zero
IsPositiveNumeric(chars) ==
    /\ \A k \in DOMAIN chars : IsDigit(chars[k]) \/ chars[k] = "."
    /\ Cardinality({k \in DOMAIN chars : chars[k] = "."}) <= 1
    /\ \E k \in DOMAIN chars : IsDigit(chars[k]) /\ DigitVal(chars[k]) > 0

(***************************************************************************)
(* C16: the size of every order that is submitted is a positive numeric    *)
(* string.                                                                 *)
(***************************************************************************)
C16_OnlyPositiveSizesSubmitted ==
    \A i \in DOMAIN inv :
        LET s == inv[i] IN
        /\ s.pc = "order" => IsPositiveNumeric(SizeChars(s.args.size))
        /\ \A k \in CallsOf(s, "order") :
             \A n \in DOMAIN s.calls[k].orders :
                 IsPositiveNumeric(SizeChars(s.calls[k].orders[n].s))

(***************************************************************************)
(* The outbound calls of an invocation in the order they were issued: the  *)
(* calls that have completed, then the call that is awaited.               *)
(***************************************************************************)
AwaitedOp(pc) ==
    CASE pc = "listSecrets" -> <<"listSecrets">>
      [] pc \in {"pkValue", "vaultValue"} -> <<"secretValue">>
      [] pc = "allMids" -> <<"allMids">>
      [] pc \in {"metaLeverage", "meta"} -> <<"meta">>
      [] pc = "updateLeverage" -> <<"updateLeverage">>
      [] pc = "order" -> <<"order">>
      [] OTHER -> <<>>

Issued(s) == [k \in DOMAIN s.calls |-> s.calls[k].op] \o AwaitedOp(s.pc)

IsPrefix(a, b) == Len(a) <= Len(b) /\ SubSeq(b, 1, Len(a)) = a

\* the call sequences of the pipeline for a request: the vault value only
\* when a vault is named, the leverage step only when a leverage is given
Pipelines(args) ==
    LET vault == IF TruthyStr(args.vault_name)
                 THEN {<<>>, <<"secretValue">>} ELSE {<<>>}
        lever == IF TruthySeq(args.leverage)
                 THEN {<<"meta">>, <<"meta", "updateLeverage">>} ELSE {<<>>}
    IN  {<<"listSecrets", "secretValue">> \o v \o <<"allMids">> \o l
           \o <<"meta", "order">> : v \in vault, l \in lever}

(***************************************************************************)
(* C18: the calls of an invocation are issued in pipeline order, none      *)
(* twice: the listing, the private-key value, the vault value if a vault   *)
(* is named, the price feed, the universe and then the leverage update if  *)
(* a leverage is given, the universe, the order.  The order is issued only *)
(* with the private key resolved, the price obtained and the coin found in *)
(* the universe fetched last, and no call is issued after it.              *)
(***************************************************************************)
C18_CallsFollowPipelineOrder ==
    \A i \in DOMAIN inv :
        LET s == inv[i]
            issued == Issued(s)
        IN  /\ \E p \in Pipelines(s.args) : IsPrefix(issued, p)
            /\ \A k \in DOMAIN issued :
                 issued[k] = "order" =>
                     /\ k = Len(issued)
                     /\ IsSome(s.PRIVATE_KEY)
                     /\ IsSome(s.coinPrice)
                     /\ s.calls[k - 1].op = "meta"
                     /\ s.calls[k - 1].outcome = "ok"
                     /\ IsSome(s.meta) /\ Lists(Val(s.meta), s.args.coin)
                     /\ \A j \in 1..(k - 1) :
                          s.calls[j].op \in {"listSecrets", "allMids"} =>
                              s.calls[j].outcome = "ok"

C18_Witness ==
    \E i \in DOMAIN inv :
        /\ inv[i].pc = "done"
        /\ Issued(inv[i]) = <<"listSecrets", "secretValue", "secretValue",
                              "allMids", "meta", "updateLeverage", "meta",
                              "order">>

\* how many calls of the kind there are among the issued ones
Count(issued, op) == Cardinality({k \in DOMAIN issued : issued[k] = op})

\* the completed fetches of the value of the secret with this id
ValueFetches(s, id) == {k \in CallsOf(s, "secretValue") : s.calls[k].id = id}

SecretIds == {secret.id : secret \in StoreSecrets}

CalledAtMostOnce(issued) ==
    /\ Count(issued, "listSecrets") <= 1
    /\ Count(issued, "allMids") <= 1
    /\ Count(issued, "updateLeverage") <= 1
    /\ Count(issued, "meta") <= 2
    /\ Count(issued, "order") <= 1

(***************************************************************************)
(* C19 as stated: an invocation fetches the listing at most once, the      *)
(* value of each secret at most once, the price feed at most once, updates *)
(* the leverage at most once, fetches the universe at most twice and       *)
(* submits at most one order, whatever failed.                             *)
(***************************************************************************)
C19_NoCallRepeated ==
    \A i \in DOMAIN inv :
        /\ CalledAtMostOnce(Issued(inv[i]))
        /\ \A id \in SecretIds : Cardinality(ValueFetches(inv[i], id)) <= 1

(***************************************************************************)
(* C19 amended: as stated, except that it is the private-key value and the *)
(* vault value that are each fetched at most once: at most two value       *)
(* fetches, and they fetch the value of one secret twice exactly when the  *)
(* request names the same secret as private key and as vault.              *)
(***************************************************************************)
C19_EachStepCalledAtMostOnce ==
    \A i \in DOMAIN inv :
        LET s == inv[i]
            issued == Issued(s)
            values == Count(issued, "secretValue")
            sameSecret == TruthyStr(s.args.vault_name)
                          /\ Val(s.args.vault_name) = s.args.pk_name
        IN  /\ CalledAtMostOnce(issued)
            /\ values <= (IF TruthyStr(s.args.vault_name) THEN 2 ELSE 1)
            /\ \A k \in CallsOf(s, "secretValue") :
                 s.calls[k].id = (IF k = 2 THEN Val(s.privateKeySecret).id
                                           ELSE Val(s.vaultAddressSecret).id)
            /\ \A id \in SecretIds :
                 /\ Cardinality(ValueFetches(s, id)) <= (IF sameSecret THEN 2 ELSE 1)
                 /\ (sameSecret /\ values = 2 /\ s.pc = "done")
                      => Cardinality(ValueFetches(s, id)) \in {0, 2}

C19_Witness ==
    \E i \in DOMAIN inv :
        LET s == inv[i] IN
        /\ s.pc = "done"
        /\ s.args.pk_name = "k1" /\ s.args.vault_name = Some("k1")
        /\ Cardinality(ValueFetches(s, "s1")) = 2
        /\ Count(Issued(s), "meta") = 2
        /\ LeverageFailed(s)
        /\ Made(s, "order")

\* exactly one order was submitted and answered, and the first status of the
\* answer reports a fill or a resting order
OneOrderAccepted(s) ==
    /\ Cardinality(CallsOf(s, "order")) = 1
    /\ \A k \in CallsOf(s, "order") :
         s.calls[k].outcome = "ok" /\ Len(s.calls[k].orders) = 1
    /\ IsSome(s.orderResult)
    /\ Shape(Val(s.orderResult)) \in {"filled", "resting"}

(***************************************************************************)
(* C20: the result of an invocation has success:true exactly when one      *)
(* order was submitted and the first status of its reply is `filled` or    *)
(* `resting`; every other result has success:false and an error text.      *)
(***************************************************************************)
C20_SuccessIffFilledOrResting ==
    \A i \in DOMAIN inv :
        LET s == inv[i] IN
        s.pc = "done" =>
            /\ Len(s.results) = 1
            /\ s.results[1].success = TRUE <=> OneOrderAccepted(s)
            /\ s.results[1].success = FALSE =>
                 /\ IsSome(s.results[1].error)
                 /\ Val(s.results[1].error) /= <<>>
                 /\ \A k \in DOMAIN Val(s.results[1].error) :
                      Val(s.results[1].error)[k] \in STRING
            /\ s.results[1].success = TRUE => ~IsSome(s.results[1].error)

C20_Witness ==
    \E i \in DOMAIN inv :
        /\ inv[i].pc = "done"
        /\ inv[i].results[1].success = TRUE
        /\ OneOrderAccepted(inv[i])
        /\ Shape(Val(inv[i].orderResult)) = "resting"

(***************************************************************************)
(* Two invocations of the capability in flight together, their steps       *)
(* interleaved at every await in every possible way.  Each is one of two   *)
(* requests: a leveraged buy on behalf of a vault, or a reduce-only sell.  *)
(***************************************************************************)
ConcurrentRequests ==
    {[coin |-> "BTC", side |-> "buy", size |-> "0.01",
      leverage |-> Some(<<"5">>), reduceOnly |-> None,
      pk_name |-> "k1", vault_name |-> Some("v1")],
     [coin |-> "BTC", side |-> "sell", size |-> "-1",
      leverage |-> None, reduceOnly |-> Some(TRUE),
      pk_name |-> "k1", vault_name |-> None]}

InitConcurrent ==
    /\ inv \in [{1, 2} ->
                  {NewInvocation(a, [workspaceId |-> Some("ws1"),
                                     OPENSERV_API_KEY |-> "key"]) :
                     a \in ConcurrentRequests}]
    /\ q = QIdle

SpecConcurrent == InitConcurrent /\ [][Next]_vars

\* the exchange calls of an invocation carry the key and the vault this
\* invocation resolved, and the order is computed from its own request,
\* its own price and the universe it fetched itself
OwnValues(s) ==
    /\ \A k \in CallsOf(s, "updateLeverage") \cup CallsOf(s, "order") :
         /\ s.calls[k].wallet = s.PRIVATE_KEY
         /\ s.calls[k].vault = s.VAULT_ADDRESS
    /\ \A k \in CallsOf(s, "order") :
         LET order == s.calls[k].orders[1]
             index == findIndex(Val(s.meta), s.args.coin)
         IN  /\ order.a = index
             /\ order.b = (s.args.side = "buy")
             /\ order.s = s.args.size
             /\ order.p \in limitPrices(Val(s.coinPrice), s.args.side,
                                        Val(s.meta)[index + 1].szDecimals)

\* the same request, answered the same
SameReplies(s, t) ==
    /\ s.args = t.args /\ s.action = t.action
    /\ [k \in DOMAIN s.calls |-> s.calls[k].outcome]
         = [k \in DOMAIN t.calls |-> t.calls[k].outcome]
    /\ s.secrets = t.secrets
    /\ s.PRIVATE_KEY = t.PRIVATE_KEY /\ s.VAULT_ADDRESS = t.VAULT_ADDRESS
    /\ s.coinPrice = t.coinPrice
    /\ s.levAssetIndex = t.levAssetIndex /\ s.meta = t.meta
    /\ s.orderResult = t.orderResult

(***************************************************************************)
(* C17: two invocations interleaved at their awaits do not touch each      *)
(* other: a step of one leaves the other as it was; each signs and submits *)
(* with the key and vault it resolved and the coin, side, size and limit   *)
(* price of its own request and replies; and what an invocation calls and  *)
(* returns depends on its request and on the replies it got alone, however *)
(* its steps fell among the other's.                                       *)
(***************************************************************************)
C17_InvocationsAreIsolated ==
    /\ [](/\ \A i \in DOMAIN inv : OwnValues(inv[i])
          /\ \A i, j \in DOMAIN inv :
               (inv[i].pc = "done" /\ inv[j].pc = "done"
                  /\ SameReplies(inv[i], inv[j]))
                 => /\ inv[i].results = inv[j].results
                    /\ inv[i].calls = inv[j].calls)
    /\ [][\A i \in DOMAIN inv :
            inv'[i] /= inv[i] =>
                \A j \in DOMAIN inv \ {i} : inv'[j] = inv[j]]_vars

C17_Witness ==
    /\ DOMAIN inv = {1, 2}
    /\ inv[1].pc = "done" /\ Made(inv[1], "order")
    /\ inv[2].pc = "order"
    /\ inv[1].PRIVATE_KEY /= inv[2].PRIVATE_KEY
    /\ inv[1].VAULT_ADDRESS /= inv[2].VAULT_ADDRESS
    /\ inv[1].args.side /= inv[2].args.side
    /\ Val(inv[1].assetIndex) /= Val(inv[2].assetIndex)

\* the 0-based position is the first one of the listing that names the coin
IsPositionOf(index, universe, coin) ==
    /\ index + 1 \in DOMAIN universe
    /\ universe[index + 1].name = coin
    /\ \A k \in 1..index : universe[k].name /= coin

(***************************************************************************)
(* C21: an order submission carries exactly one order: its asset is the    *)
(* position of the coin in the universe fetched last, after the leverage   *)
(* step; it is a buy exactly when the side is "buy"; its price is the      *)
(* limit price of the price read from the feed, before the leverage step,  *)
(* for that universe entry's szDecimals; its size is the size of the       *)
(* request; it is reduce-only when the request says so and not when the    *)
(* request leaves it out; and it is immediate-or-cancel.                   *)
(***************************************************************************)
C21_OrderFields ==
    \A i \in DOMAIN inv :
        LET s == inv[i] IN
        \A k \in CallsOf(s, "order") :
            LET universe == Val(s.meta)
                fed == CHOOSE j \in CallsOf(s, "allMids") : TRUE
            IN  /\ Len(s.calls[k].orders) = 1
                /\ s.calls[k - 1].op = "meta" /\ s.calls[k - 1].outcome = "ok"
                /\ \A j \in CallsOf(s, "meta") \cup CallsOf(s, "updateLeverage") :
                     fed < j /\ j < k
                /\ LET order == s.calls[k].orders[1] IN
                   /\ IsPositionOf(order.a, universe, s.args.coin)
                   /\ order.b = (s.args.side = "buy")
                   /\ order.p \in limitPrices(Val(s.coinPrice), s.args.side,
                                              universe[order.a + 1].szDecimals)
                   /\ order.s = s.args.size
                   /\ order.r = (IF s.args.reduceOnly = None THEN FALSE
                                 ELSE Val(s.args.reduceOnly))
                   /\ order.tif = "Ioc"

C21_Witness ==
    \E i \in DOMAIN inv :
        LET s == inv[i] IN
        /\ Made(s, "order") /\ Made(s, "updateLeverage")
        /\ Len(Val(s.meta)) = 2 /\ Val(s.meta)[1].name = "BTC"
        /\ Val(s.meta)[2].name = "BTC"
        /\ s.args.reduceOnly = Some(TRUE)
        /\ s.args.side = "sell"

\* the invocation has ended with the leverage changed and no order submitted
LeverageChangedOnly(s) ==
    /\ s.pc = "done"
    /\ \E k \in CallsOf(s, "updateLeverage") : s.calls[k].outcome = "ok"
    /\ ~Made(s, "order")

(***************************************************************************)
(* C22: an invocation that ends with the leverage update accepted and no   *)
(* order submitted made exactly one call after the update, the universe    *)
(* fetch that threw or no longer listed the coin; nothing follows that     *)
(* call, no call to undo the update and no other; the invocation returns   *)
(* one result, success:false with an error, and takes no further step.     *)
(* That such an end is reached is what the witness shows.                  *)
(***************************************************************************)
C22_NoRollback ==
    \A i \in DOMAIN inv :
        LET s == inv[i] IN
        LeverageChangedOnly(s) =>
            LET last == s.calls[Len(s.calls)] IN
            /\ s.calls[Len(s.calls) - 1].op = "updateLeverage"
            /\ last.op = "meta"
            /\ \/ last.outcome = "throw"
               \/ last.outcome = "ok" /\ ~Lists(Val(s.meta), s.args.coin)
            /\ Len(s.results) = 1
            /\ s.results[1].success = FALSE
            /\ IsSome(s.results[1].error)
            /\ ~ENABLED Step(i)

C22_Witness ==
    \E i \in DOMAIN inv :
        LET s == inv[i] IN
        /\ LeverageChangedOnly(s)
        /\ s.calls[Len(s.calls)].outcome = "ok"
        /\ IsSome(s.meta) /\ ~Lists(Val(s.meta), s.args.coin)
        /\ s.results[1].error = Some(<<"Asset ", "BTC", " not found">>)

\* the decimal numeral of a natural number
RECURSIVE Numeral(_)
Numeral(n) ==
    IF n < 10 THEN <<Digits[n + 1]>>
    ELSE Append(Numeral(n \div 10), Digits[(n % 10) + 1])

\* every leverage update was asked for by the request, after the price was
\* found and the coin located in the universe fetched just before it, in
\* cross-margin mode and for the leverage the request spells
UpdatesAsRequested(s) ==
    /\ (s.pc = "updateLeverage" \/ Made(s, "updateLeverage")) =>
         /\ TruthySeq(s.args.leverage)
         /\ IsSome(s.coinPrice)
         /\ IsSome(s.levAssetIndex) /\ Val(s.levAssetIndex) >= 0
         /\ s.calls[Len(s.calls)].op = "meta" \/ Made(s, "updateLeverage")
    /\ \A k \in CallsOf(s, "updateLeverage") :
         /\ \E j \in CallsOf(s, "allMids") : j < k /\ s.calls[j].outcome = "ok"
         /\ s.calls[k - 1].op = "meta" /\ s.calls[k - 1].outcome = "ok"
         /\ s.calls[k].asset = Val(s.levAssetIndex)
         /\ s.calls[k].isCross = TRUE
         /\ s.calls[k].leverage \in Nat
         /\ Numeral(s.calls[k].leverage) = Val(s.args.leverage)

(***************************************************************************)
(* C23 as stated: the leverage update is made only for a request with a    *)
(* non-empty leverage, after the price was found and the coin located in   *)
(* the universe of the leverage step, in cross-margin mode and with the    *)
(* integer the leverage spells; an invocation without leverage makes no    *)
(* leverage update and fetches the universe exactly once.                  *)
(***************************************************************************)
C23_LeverageOnlyWhenRequested ==
    \A i \in DOMAIN inv :
        LET s == inv[i]
            issued == Issued(s)
        IN  /\ UpdatesAsRequested(s)
            /\ ~TruthySeq(s.args.leverage) =>
                 /\ Count(issued, "updateLeverage") = 0
                 /\ s.pc = "done" => Count(issued, "meta") = 1

(***************************************************************************)
(* C23 amended: as stated, except that an invocation without leverage      *)
(* fetches the universe at most once: exactly once when it found the       *)
(* coin's price, and not at all when it ended before that.                 *)
(***************************************************************************)
C23_LeverageOnlyWhenRequestedAndPriced ==
    \A i \in DOMAIN inv :
        LET s == inv[i]
            issued == Issued(s)
        IN  /\ UpdatesAsRequested(s)
            /\ ~TruthySeq(s.args.leverage) =>
                 /\ Count(issued, "updateLeverage") = 0
                 /\ Count(issued, "meta") = (IF IsSome(s.coinPrice) THEN 1 ELSE 0)

C23_Witness ==
    \E i \in DOMAIN inv :
        LET s == inv[i] IN
        /\ s.pc = "done"
        /\ \E k \in CallsOf(s, "updateLeverage") :
             s.calls[k].leverage = 5 /\ s.calls[k].asset = 1
        /\ Count(Issued(s), "meta") = 2

(***************************************************************************)
(* C24: in an invocation that makes both a leverage update and an order,   *)
(* the two name the same asset index, whatever the universe listings of    *)
(* the two fetches are.                                                    *)
(***************************************************************************)
C24_UpdateAndOrderSameAsset ==
    \A i \in DOMAIN inv :
        LET s == inv[i] IN
        \A k \in CallsOf(s, "updateLeverage") :
            \A n \in CallsOf(s, "order") :
                s.calls[k].asset = s.calls[n].orders[1].a
====
